---- MODULE Spec2Model ----
(***************************************************************************)
(* bw::tempdir::TempDir (include/bw/tempdir/tempdir.hpp) and the client    *)
(* code that owns it: scopes, exceptions in flight, explicit cleanup()     *)
(* calls and destructors run at scope exit.                                *)
(*                                                                         *)
(* A directory name is a string, a path the sequence of directory names    *)
(* from the filesystem root, an error text a sequence of strings.  The     *)
(* filesystem maps every existing directory to the set of files it holds.  *)
(***************************************************************************)
EXTENDS Integers, Sequences, FiniteSets, TLC

VARIABLES
    handles,    \* the TempDir objects: state, _temp_dir, _config, owning scope
    disk,       \* the filesystem: existing directory |-> files in it
    now,        \* system_clock::now() in milliseconds
    scopes,     \* the client's open scopes, innermost last: how each is running
    uncaught,   \* std::uncaught_exceptions()
    out,        \* what the logger sinks have received, in order
    result,     \* outcome of the TempDir operation the last step executed
    terminated  \* std::terminate was called

vars == <<handles, disk, now, scopes, uncaught, out, result, terminated>>

----------------------------------------------------------------------------
(* Bounds of the model. *)

MaxHandles == 1
MaxDepth == 2
MaxClock == 1
MaxCleanupCalls == 2
\* the TempDir objects of a program that moves them
MaxMoveHandles == 2

\* the TempDir objects of the program
Handles == DOMAIN handles

----------------------------------------------------------------------------
(* Text, names and paths. *)

Digits == <<"0", "1", "2", "3", "4", "5", "6", "7", "8", "9">>

\* std::to_string of a non-negative integer, digit by digit
RECURSIVE to_string(_)
to_string(n) ==
    IF n < 10 THEN Digits[n + 1]
    ELSE to_string(n \div 10) \o Digits[(n % 10) + 1]

\* std::uniform_int_distribution<> dist(10000, 99999)
RandMin == 10000
RandMax == 99999
\* the draws of dist(gen) the model follows
RandomDraws == {RandMin, RandMax}

\* Config::temp_dir_prefix = "temp_dir"
DefaultPrefix == "temp_dir"
\* set_temp_dir_prefix("my-project")
ProjectPrefix == "my-project"
Prefixes == {DefaultPrefix, ProjectPrefix}

\* fs::temp_directory_path()
TempDirectoryPath == <<"tmp">>
\* fs::temp_directory_path() / "my-custom-root", which does not exist at first
CustomRoot == Append(TempDirectoryPath, "my-custom-root")
Roots == {TempDirectoryPath, CustomRoot}

\* fs::path::operator/ with a relative right-hand side of one name
PathAppend(root, name) == Append(root, name)
\* fs::path::parent_path
parent_path(p) == SubSeq(p, 1, Len(p) - 1)
\* fs::path::filename
filename(p) == p[Len(p)]
\* std::string::find(prefix) == 0
StartsWith(s, prefix) ==
    /\ Len(prefix) <= Len(s)
    /\ SubSeq(s, 1, Len(prefix)) = prefix

----------------------------------------------------------------------------
(* Exceptions. *)

NoException == [type |-> "none", what |-> <<>>, std |-> TRUE]

\* what() of the std::filesystem::filesystem_error of fs::create_directories
CreateFailure ==
    [type |-> "filesystem_error",
     what |-> <<"filesystem error: cannot create directories: Permission denied">>,
     std |-> TRUE]
\* what() of the std::filesystem::filesystem_error of fs::remove_all
RemoveFailure ==
    [type |-> "filesystem_error",
     what |-> <<"filesystem error: cannot remove all: Permission denied">>,
     std |-> TRUE]
\* what() of the std::filesystem::filesystem_error of fs::exists
ExistsFailure ==
    [type |-> "filesystem_error",
     what |-> <<"filesystem error: status: Permission denied">>,
     std |-> TRUE]
\* an exception derived from std::exception thrown by the logger sink
SinkFailure == [type |-> "sink_error", what |-> <<"sink failed">>, std |-> TRUE]
\* an exception not derived from std::exception thrown by the logger sink
SinkFailureOther == [type |-> "sink_value", what |-> <<>>, std |-> FALSE]

TempDirExceptionPrefix == "TempDirExcepton: "

\* TempDirException without the wrapped exception's message
TempDirException_NoWhat(ex) ==
    [type |-> "TempDirException", what |-> <<TempDirExceptionPrefix>>, std |-> TRUE]

\* TempDirException(const std::exception& ex)
TempDirException(ex) ==
    [type |-> "TempDirException",
     what |-> <<TempDirExceptionPrefix>> \o ex.what,
     std |-> TRUE]

----------------------------------------------------------------------------
(* Config and its setters. *)

NoLogger == "none"
Loggers == {NoLogger, "cout"}
Cleanups == {"always", "on_success", "never"}

DefaultConfig ==
    [root_path |-> TempDirectoryPath,
     cleanup |-> "always",
     temp_dir_prefix |-> DefaultPrefix,
     log_impl |-> NoLogger]

set_root_path(config, root_path) == [config EXCEPT !.root_path = root_path]
set_cleanup(config, cleanup) == [config EXCEPT !.cleanup = cleanup]
set_temp_dir_prefix(config, prefix) == [config EXCEPT !.temp_dir_prefix = prefix]
enable_logging(config, log_impl) == [config EXCEPT !.log_impl = log_impl]

----------------------------------------------------------------------------
(* The filesystem primitives.  Each takes the outcome the environment gives *)
(* it on this call.                                                         *)

\* fs::exists(p)
exists(d, p) == p \in DOMAIN d

\* d with the directory p made (empty)
MakeDir(d, p) == [q \in DOMAIN d \cup {p} |-> IF q = p THEN {} ELSE d[q]]

\* fs::create_directories(p): every missing directory along p is made, from
\* the top down; the mkdir of the failAt-th name of p fails (0: none does).
\* What was made before the failure stays.
RECURSIVE CreateFrom(_, _, _, _)
CreateFrom(d, p, k, failAt) ==
    IF k > Len(p) THEN [disk |-> d, ok |-> TRUE]
    ELSE LET q == SubSeq(p, 1, k)
         IN IF q \in DOMAIN d THEN CreateFrom(d, p, k + 1, failAt)
            ELSE IF k = failAt THEN [disk |-> d, ok |-> FALSE]
            ELSE CreateFrom(MakeDir(d, q), p, k + 1, failAt)

create_directories(d, p, failAt) == CreateFrom(d, p, 1, failAt)

\* q is p or lies below p
IsWithin(q, p) == Len(p) <= Len(q) /\ SubSeq(q, 1, Len(p)) = p

\* fs::remove_all(p).  "ok": p and everything below it is gone.  "fail": it
\* throws before anything was removed.  "fail_partial": it throws after the
\* files in p were removed; p itself stays.
remove_all(d, p, outcome) ==
    CASE outcome = "ok" ->
           [disk |-> [q \in {x \in DOMAIN d : ~IsWithin(x, p)} |-> d[q]], ok |-> TRUE]
      [] outcome = "fail" ->
           [disk |-> d, ok |-> FALSE]
      [] OTHER ->
           [disk |-> [q \in DOMAIN d |-> IF q = p THEN {} ELSE d[q]], ok |-> FALSE]

RemoveOutcomes == {"ok", "fail", "fail_partial"}

----------------------------------------------------------------------------
(* Logging. *)

MsgCreate(p) == [label |-> "TempDir create", path |-> p, error |-> <<>>]
MsgCreationFailed(p, ex) ==
    [label |-> "TempDir creation failed", path |-> p, error |-> ex.what]
MsgKeep(p) == [label |-> "TempDir keep", path |-> p, error |-> <<>>]
MsgRemove(p) == [label |-> "TempDir remove", path |-> p, error |-> <<>>]
MsgRemovalFailed(p, ex) ==
    [label |-> "TempDir removal failed", path |-> p, error |-> ex.what]

\* log without the test of _config.log_impl: calling the empty std::function
\* throws std::bad_function_call
log_NoNullCheck(config, o, message, sink) ==
    IF config.log_impl = NoLogger
    THEN [out |-> o,
          raised |-> [type |-> "bad_function_call",
                      what |-> <<"bad_function_call">>, std |-> TRUE]]
    ELSE IF sink = "ok"
    THEN [out |-> Append(o, [sink |-> config.log_impl, message |-> message]),
          raised |-> NoException]
    ELSE [out |-> o,
          raised |-> IF sink = "throw" THEN SinkFailure ELSE SinkFailureOther]

\* TempDir::log: the message goes to the configured sink, if there is one;
\* sink is what the sink does with this call: "ok", "throw", "throw_other"
log(config, o, message, sink) ==
    IF config.log_impl = NoLogger
    THEN [out |-> o, raised |-> NoException]
    ELSE IF sink = "ok"
    THEN [out |-> Append(o, [sink |-> config.log_impl, message |-> message]),
          raised |-> NoException]
    ELSE [out |-> o,
          raised |-> IF sink = "throw" THEN SinkFailure ELSE SinkFailureOther]

SinkOutcomes == {"ok", "throw", "throw_other"}

----------------------------------------------------------------------------
(* TempDir. *)

\* TempDir::generate_dir_name, at time t with random_number rn
generate_dir_name(config, t, rn) ==
    config.temp_dir_prefix \o "_" \o to_string(t) \o "_" \o to_string(rn)

\* explicit TempDir(Config config = {}): the try block and its handler.
\* f.failAt is the outcome of fs::create_directories, f.sink those of the
\* first and second call of the sink.
TempDir(config, d, o, t, rn, f) ==
    LET temp_dir == PathAppend(config.root_path, generate_dir_name(config, t, rn))
        made == create_directories(d, temp_dir, f.failAt)
        logged == IF made.ok THEN log(config, o, MsgCreate(temp_dir), f.sink[1])
                  ELSE [out |-> o, raised |-> NoException]
        ex == IF made.ok THEN logged.raised ELSE CreateFailure
        failed == log(config, logged.out, MsgCreationFailed(temp_dir, ex),
                      IF made.ok THEN f.sink[2] ELSE f.sink[1])
    IN  [_temp_dir |-> temp_dir,
         disk |-> made.disk,
         out |-> IF ex = NoException \/ ~ex.std THEN logged.out ELSE failed.out,
         raised |-> IF ex = NoException \/ ~ex.std THEN ex
                    ELSE IF failed.raised = NoException THEN TempDirException(ex)
                    ELSE failed.raised]

\* Decision with Cleanup::always honoured only while no exception is in flight
Decision_AlwaysNeedsSuccess(config, unc) ==
    IF config.cleanup \in {"always", "on_success"} /\ unc <= 0
    THEN "delete" ELSE "keep"

\* Decision with only the exception in flight keeping the directory
Decision_NeverForgotten(config, unc) ==
    IF config.cleanup = "on_success" /\ unc > 0 THEN "keep" ELSE "delete"

\* Decision with Cleanup::on_success not looking at std::uncaught_exceptions()
Decision_OnSuccessDeletes(config, unc) ==
    IF config.cleanup \in {"always", "on_success"} THEN "delete" ELSE "keep"

\* the decision of TempDir::cleanup for a directory that exists
Decision(config, unc) ==
    LET always_cleanup == config.cleanup = "always"
        on_sucess_cleanup_no_exception ==
            config.cleanup = "on_success" /\ unc <= 0
    IN  IF ~always_cleanup /\ ~on_sucess_cleanup_no_exception
        THEN "keep" ELSE "delete"

\* RemoveAndLog with a handler that logs the failure and does not throw
RemoveAndLog_NoRethrow(config, p, d, o, f) ==
    LET removed == remove_all(d, p, f.remove)
        logged == IF removed.ok THEN log(config, o, MsgRemove(p), f.sink[1])
                  ELSE log(config, o, MsgRemovalFailed(p, RemoveFailure), f.sink[1])
    IN  [disk |-> removed.disk, out |-> logged.out, raised |-> logged.raised,
         decision |-> "delete"]

\* the try block of TempDir::cleanup and its handler
RemoveAndLog(config, p, d, o, f) ==
    LET removed == remove_all(d, p, f.remove)
        logged == IF removed.ok THEN log(config, o, MsgRemove(p), f.sink[1])
                  ELSE [out |-> o, raised |-> NoException]
        ex == IF removed.ok THEN logged.raised ELSE RemoveFailure
        failed == log(config, logged.out, MsgRemovalFailed(p, ex),
                      IF removed.ok THEN f.sink[2] ELSE f.sink[1])
    IN  [disk |-> removed.disk,
         out |-> IF ex = NoException \/ ~ex.std THEN logged.out ELSE failed.out,
         raised |-> IF ex = NoException \/ ~ex.std THEN ex
                    ELSE IF failed.raised = NoException THEN TempDirException(ex)
                    ELSE failed.raised,
         decision |-> "delete"]

\* cleanup without the fs::exists check at its start
cleanup_NoExistsCheck(hd, d, o, unc, f) ==
    IF Decision(hd._config, unc) = "keep"
    THEN LET kept == log(hd._config, o, MsgKeep(hd._temp_dir), f.sink[1])
         IN  [disk |-> d, out |-> kept.out, raised |-> kept.raised,
              decision |-> "keep"]
    ELSE RemoveAndLog(hd._config, hd._temp_dir, d, o, f)

\* cleanup that looks for the directory only when it is about to remove it
cleanup_ExistsCheckedLate(hd, d, o, unc, f) ==
    IF Decision(hd._config, unc) = "keep"
    THEN LET kept == log(hd._config, o, MsgKeep(hd._temp_dir), f.sink[1])
         IN  [disk |-> d, out |-> kept.out, raised |-> kept.raised,
              decision |-> "keep"]
    ELSE IF ~exists(d, hd._temp_dir)
    THEN [disk |-> d, out |-> o, raised |-> NoException, decision |-> "none"]
    ELSE RemoveAndLog(hd._config, hd._temp_dir, d, o, f)

\* cleanup that keeps the directory without logging it
cleanup_SilentKeep(hd, d, o, unc, f) ==
    IF f.exists = "throw"
    THEN [disk |-> d, out |-> o, raised |-> ExistsFailure, decision |-> "none"]
    ELSE IF ~exists(d, hd._temp_dir)
    THEN [disk |-> d, out |-> o, raised |-> NoException, decision |-> "none"]
    ELSE IF Decision(hd._config, unc) = "keep"
    THEN [disk |-> d, out |-> o, raised |-> NoException, decision |-> "keep"]
    ELSE RemoveAndLog(hd._config, hd._temp_dir, d, o, f)

\* void TempDir::cleanup() of the handle hd, with unc exceptions in flight.
\* f.exists and f.remove are the outcomes of fs::exists and fs::remove_all.
cleanup(hd, d, o, unc, f) ==
    IF f.exists = "throw"
    THEN [disk |-> d, out |-> o, raised |-> ExistsFailure, decision |-> "none"]
    ELSE IF ~exists(d, hd._temp_dir)
    THEN [disk |-> d, out |-> o, raised |-> NoException, decision |-> "none"]
    ELSE IF Decision(hd._config, unc) = "keep"
    THEN LET kept == log(hd._config, o, MsgKeep(hd._temp_dir), f.sink[1])
         IN  [disk |-> d, out |-> kept.out, raised |-> kept.raised,
              decision |-> "keep"]
    ELSE RemoveAndLog(hd._config, hd._temp_dir, d, o, f)

----------------------------------------------------------------------------
(* The constructors. *)

Forms == {"default", "root", "root_cleanup", "cleanup", "config"}

\* a constructor call: the overload and its arguments; an argument the
\* overload does not take has the value Config gives it by default
Calls ==
    {c \in [form : Forms, root_path : Roots, cleanup : Cleanups,
            temp_dir_prefix : Prefixes, log_impl : Loggers] :
        /\ c.form \in {"default", "cleanup"} => c.root_path = DefaultConfig.root_path
        /\ c.form \in {"default", "root"} => c.cleanup = DefaultConfig.cleanup
        /\ c.form # "config" => c.temp_dir_prefix = DefaultConfig.temp_dir_prefix
        /\ c.form # "config" => c.log_impl = DefaultConfig.log_impl}

\* ConfigOf with TempDir(root_path, cleanup) losing its root_path
ConfigOf_RootDropped(c) ==
    IF c.form = "root_cleanup" THEN set_cleanup(DefaultConfig, c.cleanup)
    ELSE IF c.form = "config"
    THEN enable_logging(
             set_temp_dir_prefix(
                 set_cleanup(set_root_path(DefaultConfig, c.root_path), c.cleanup),
                 c.temp_dir_prefix),
             c.log_impl)
    ELSE IF c.form = "root" THEN set_root_path(DefaultConfig, c.root_path)
    ELSE set_cleanup(DefaultConfig, c.cleanup)

\* the Config each overload hands to TempDir(Config)
ConfigOf(c) ==
    CASE c.form = "default" -> DefaultConfig
      [] c.form = "root" -> set_root_path(DefaultConfig, c.root_path)
      [] c.form = "root_cleanup" ->
           set_cleanup(set_root_path(DefaultConfig, c.root_path), c.cleanup)
      [] c.form = "cleanup" -> set_cleanup(DefaultConfig, c.cleanup)
      [] OTHER ->
           LET named == set_temp_dir_prefix(
                            set_cleanup(set_root_path(DefaultConfig, c.root_path),
                                        c.cleanup),
                            c.temp_dir_prefix)
           IN  IF c.log_impl = NoLogger THEN named
               ELSE enable_logging(named, c.log_impl)

----------------------------------------------------------------------------
(* What the environment does to the calls of one operation. *)

NoFault == [failAt |-> 0, exists |-> "ok", remove |-> "ok", sink |-> <<"ok", "ok">>]

\* fs::create_directories and fs::remove_all may fail
PrimitiveFaults ==
    {[NoFault EXCEPT !.failAt = k] : k \in 0..(Len(CustomRoot) + 1)}
    \cup {[NoFault EXCEPT !.remove = r] : r \in RemoveOutcomes}

\* fs::exists and the logger sink may throw as well
AllFaults ==
    {[failAt |-> p.failAt, exists |-> e, remove |-> p.remove, sink |-> <<s1, s2>>] :
        p \in PrimitiveFaults, e \in {"ok", "throw"},
        s1 \in SinkOutcomes, s2 \in SinkOutcomes}

----------------------------------------------------------------------------
(* The state. *)

\* a handle that does not exist: not yet constructed ("none"), never produced
\* because its constructor threw ("failed"), or destroyed
NoHandle ==
    [state |-> "none", _temp_dir |-> <<>>, _config |-> DefaultConfig,
     scope |-> 0, calls |-> 0, cleaned |-> FALSE]

DefaultCall ==
    [form |-> "default", root_path |-> DefaultConfig.root_path,
     cleanup |-> DefaultConfig.cleanup,
     temp_dir_prefix |-> DefaultConfig.temp_dir_prefix,
     log_impl |-> DefaultConfig.log_impl]

\* The outcome of a TempDir operation, as the step that executed it leaves it:
\* the operation and its handle, the exception that left it (raised) and the
\* one that left cleanup() or the constructor's try block (thrown), the call,
\* the handle's _config and _temp_dir, what the environment did (env), the
\* filesystem and the sinks before it, the decision, how the owning scope was
\* ending, std::uncaught_exceptions(), and the explicit cleanup() calls made
\* before it; src is the handle a move took its members from.
\* Idle: the last step executed no TempDir operation.
Idle ==
    [op |-> "none", h |-> 0, src |-> 0, raised |-> NoException, thrown |-> NoException,
     call |-> DefaultCall, config |-> DefaultConfig, path |-> <<>>,
     env |-> NoFault, before |-> <<>>,
     sunk |-> <<>>, decision |-> "none", mode |-> "run", unc |-> 0,
     calls |-> 0, cleaned |-> FALSE]

Init ==
    /\ handles = [h \in 1..MaxHandles |-> NoHandle]
    /\ disk = (TempDirectoryPath :> {})
    /\ now = 0
    /\ scopes = <<>>
    /\ uncaught = 0
    /\ out = <<>>
    /\ result = Idle
    /\ terminated = FALSE

Top == scopes[Len(scopes)]
Running == ~terminated /\ scopes # <<>> /\ Top = "run"
\* the live handles the innermost scope owns
Owned == {h \in Handles : handles[h].state = "live" /\ handles[h].scope = Len(scopes)}
\* no live handle has the path p, and nothing on disk or in the sinks names it
Fresh(p) ==
    /\ \A h \in Handles : handles[h].state = "live" => handles[h]._temp_dir # p
    /\ ~exists(disk, p)
    /\ \A i \in 1..Len(out) : out[i].message.path # p

----------------------------------------------------------------------------
(* The client. *)

\* { or try {
EnterScope ==
    /\ ~terminated
    /\ Len(scopes) < MaxDepth
    /\ scopes' = Append(scopes, "run")
    /\ result' = Idle
    /\ UNCHANGED <<handles, disk, now, uncaught, out, terminated>>

\* control reaches the closing } of the innermost scope
LeaveScope ==
    /\ Running
    /\ scopes' = [scopes EXCEPT ![Len(scopes)] = "exit"]
    /\ result' = Idle
    /\ UNCHANGED <<handles, disk, now, uncaught, out, terminated>>

\* throw std::runtime_error("some-expected-test-error")
Throw ==
    /\ Running
    /\ scopes' = [scopes EXCEPT ![Len(scopes)] = "unwind"]
    /\ uncaught' = uncaught + 1
    /\ result' = Idle
    /\ UNCHANGED <<handles, disk, now, out, terminated>>

\* the innermost scope has ended normally and its objects are destroyed
CloseScope ==
    /\ ~terminated /\ scopes # <<>> /\ Top = "exit" /\ Owned = {}
    /\ scopes' = SubSeq(scopes, 1, Len(scopes) - 1)
    /\ result' = Idle
    /\ UNCHANGED <<handles, disk, now, uncaught, out, terminated>>

\* the exception that unwound the innermost scope enters its handler
Catch ==
    /\ ~terminated /\ scopes # <<>> /\ Top = "unwind" /\ Owned = {}
    /\ scopes' = SubSeq(scopes, 1, Len(scopes) - 1)
    /\ uncaught' = uncaught - 1
    /\ result' = Idle
    /\ UNCHANGED <<handles, disk, now, out, terminated>>

\* the exception that unwound the innermost scope goes on to unwind the
\* scope around it (a scope whose own objects are being destroyed is inside
\* a destructor, which the exception may not leave)
Propagate ==
    /\ ~terminated /\ Len(scopes) >= 2 /\ Top = "unwind" /\ Owned = {}
    /\ scopes[Len(scopes) - 1] = "run"
    /\ scopes' = [SubSeq(scopes, 1, Len(scopes) - 1) EXCEPT ![Len(scopes) - 1] = "unwind"]
    /\ result' = Idle
    /\ UNCHANGED <<handles, disk, now, uncaught, out, terminated>>

\* a millisecond passes (the clock is read by the constructor only)
Tick ==
    /\ ~terminated
    /\ \E h \in Handles : handles[h].state = "none"
    /\ now < MaxClock
    /\ now' = now + 1
    /\ result' = Idle
    /\ UNCHANGED <<handles, disk, scopes, uncaught, out, terminated>>

\* std::ofstream(temp_dir.path() / "test.txt")
WriteFile(h) ==
    /\ Running
    /\ handles[h].state = "live"
    /\ exists(disk, handles[h]._temp_dir)
    /\ "test.txt" \notin disk[handles[h]._temp_dir]
    /\ disk' = [disk EXCEPT ![handles[h]._temp_dir] = @ \cup {"test.txt"}]
    /\ result' = Idle
    /\ UNCHANGED <<handles, now, scopes, uncaught, out, terminated>>

\* the paths in the default root that generate_dir_name can make
SharedPaths ==
    {PathAppend(TempDirectoryPath, generate_dir_name(DefaultConfig, t, rn)) :
        t \in 0..MaxClock, rn \in RandomDraws}

\* what another party keeps in a directory it creates
ForeignFile == "foreign.txt"

\* fs::remove_all by the client or another process, of a directory a handle
\* manages while the handle is live
ExternalRemove(h) ==
    /\ ~terminated
    /\ handles[h].state = "live"
    /\ exists(disk, handles[h]._temp_dir)
    /\ disk' = remove_all(disk, handles[h]._temp_dir, "ok").disk
    /\ result' = Idle
    /\ UNCHANGED <<handles, now, scopes, uncaught, out, terminated>>

\* fs::create_directory by the client or another process, at a path the
\* generated names can take, to keep a file of its own there
ExternalCreate(p) ==
    /\ ~terminated
    /\ ~exists(disk, p)
    /\ exists(disk, parent_path(p))
    /\ disk' = [q \in DOMAIN disk \cup {p} |->
                  IF q = p THEN {ForeignFile} ELSE disk[q]]
    /\ result' = Idle
    /\ UNCHANGED <<handles, now, scopes, uncaught, out, terminated>>

----------------------------------------------------------------------------
(* The TempDir operations. *)

\* TempDir temp_dir(...): a call c of C under the faults F; with fresh, the
\* generated name is one no handle was given before
ConstructCall(h, C, F, fresh) ==
    /\ Running
    /\ handles[h].state = "none"
    /\ \A k \in Handles : k < h => handles[k].state # "none"
    /\ \E c \in C, rn \in RandomDraws, f \in F :
         LET r == TempDir(ConfigOf(c), disk, out, now, rn, f)
         IN  /\ f.exists = "ok" /\ f.remove = "ok"
             /\ fresh => Fresh(r._temp_dir)
             /\ handles' = [handles EXCEPT ![h] =
                   IF r.raised = NoException
                   THEN [state |-> "live",
                         _temp_dir |-> r._temp_dir,
                         _config |-> ConfigOf(c),
                         scope |-> Len(scopes),
                         calls |-> 0,
                         cleaned |-> FALSE]
                   ELSE [NoHandle EXCEPT !.state = "failed"]]
             /\ disk' = r.disk
             /\ out' = r.out
             /\ result' = [Idle EXCEPT !.op = "construct", !.h = h,
                           !.raised = r.raised, !.thrown = r.raised, !.call = c,
                           !.config = ConfigOf(c), !.path = r._temp_dir, !.env = f, !.before = disk,
                           !.sunk = out, !.unc = uncaught]
    /\ UNCHANGED <<now, scopes, uncaught, terminated>>

\* TempDir temp_dir(...) with any constructor and any arguments
Construct(h, F, fresh) == ConstructCall(h, Calls, F, fresh)

\* MovedFrom with the members copied: the source keeps its path and Config
MovedFrom_Copied(hd) == hd

\* The members of a TempDir that was moved from.  A moved-from
\* std::filesystem::path, std::string and std::function are left "valid but
\* unspecified"; libstdc++, libc++ and the MSVC library all leave them empty.
\* The enumerator is copied.
MovedFrom(hd) ==
    [hd EXCEPT !._temp_dir = <<>>,
               !._config = [root_path |-> <<>>, cleanup |-> hd._config.cleanup,
                            temp_dir_prefix |-> "", log_impl |-> NoLogger]]

\* TempDir b = std::move(a): TempDir(TempDir&&) = default moves the members
MoveConstruct(a, b) ==
    /\ Running
    /\ handles[a].state = "live"
    /\ handles[b].state = "none"
    /\ \A k \in Handles : k < b => handles[k].state # "none"
    /\ handles' = [handles EXCEPT
          ![b] = [state |-> "live",
                  _temp_dir |-> handles[a]._temp_dir,
                  _config |-> handles[a]._config,
                  scope |-> Len(scopes),
                  calls |-> 0,
                  cleaned |-> FALSE],
          ![a] = MovedFrom(handles[a])]
    /\ result' = [Idle EXCEPT !.op = "move_construct", !.h = b, !.src = a,
                  !.config = handles[a]._config, !.path = handles[a]._temp_dir,
                  !.before = disk, !.sunk = out, !.unc = uncaught]
    /\ UNCHANGED <<disk, now, scopes, uncaught, out, terminated>>

\* b = std::move(a): TempDir& operator=(TempDir&&) = default move-assigns
\* the members; what b held is overwritten
MoveAssign(a, b) ==
    /\ Running
    /\ a # b
    /\ handles[a].state = "live"
    /\ handles[b].state = "live"
    /\ handles' = [handles EXCEPT
          ![b]._temp_dir = handles[a]._temp_dir,
          ![b]._config = handles[a]._config,
          ![a] = MovedFrom(handles[a])]
    /\ result' = [Idle EXCEPT !.op = "move_assign", !.h = b, !.src = a,
                  !.config = handles[a]._config, !.path = handles[a]._temp_dir,
                  !.before = disk, !.sunk = out, !.unc = uncaught]
    /\ UNCHANGED <<disk, now, scopes, uncaught, out, terminated>>

\* temp_dir.cleanup() called by the client
Cleanup(h, F) ==
    /\ Running
    /\ handles[h].state = "live"
    /\ handles[h].calls < MaxCleanupCalls
    /\ \E f \in F :
         LET r == cleanup(handles[h], disk, out, uncaught, f)
         IN  /\ f.failAt = 0
             /\ handles' = [handles EXCEPT
                   ![h].calls = @ + 1,
                   ![h].cleaned = @ \/ (/\ r.raised = NoException
                                        /\ exists(disk, handles[h]._temp_dir)
                                        /\ ~exists(r.disk, handles[h]._temp_dir))]
             /\ disk' = r.disk
             /\ out' = r.out
             /\ result' = [Idle EXCEPT !.op = "cleanup", !.h = h,
                           !.raised = r.raised, !.thrown = r.raised,
                           !.config = handles[h]._config, !.path = handles[h]._temp_dir, !.env = f,
                           !.before = disk, !.sunk = out,
                           !.decision = r.decision, !.unc = uncaught,
                           !.calls = handles[h].calls,
                           !.cleaned = handles[h].cleaned]
    /\ UNCHANGED <<now, scopes, uncaught, terminated>>

\* what leaves ~TempDir() when cleanup() threw ex: catch (const std::exception&)
\* swallows it
Swallow(ex) == IF ex.std THEN NoException ELSE ex

\* ~TempDir() as the innermost scope ends: its objects are destroyed in the
\* reverse order of their construction.  An exception that leaves the
\* destructor ends the program (std::terminate).
Destroy(h, F) ==
    /\ ~terminated /\ scopes # <<>> /\ Top \in {"exit", "unwind"}
    /\ h \in Owned
    /\ \A k \in Owned : k <= h
    /\ \E f \in F :
         LET r == cleanup(handles[h], disk, out, uncaught, f)
         IN  /\ f.failAt = 0
             /\ handles' = [handles EXCEPT ![h] = [NoHandle EXCEPT !.state = "destroyed"]]
             /\ disk' = r.disk
             /\ out' = r.out
             /\ terminated' = (Swallow(r.raised) # NoException)
             /\ result' = [Idle EXCEPT !.op = "destroy", !.h = h,
                           !.raised = Swallow(r.raised), !.thrown = r.raised,
                           !.config = handles[h]._config, !.path = handles[h]._temp_dir, !.env = f,
                           !.before = disk, !.sunk = out,
                           !.decision = r.decision, !.mode = Top,
                           !.unc = uncaught, !.calls = handles[h].calls,
                           !.cleaned = handles[h].cleaned]
    /\ UNCHANGED <<now, scopes, uncaught>>

----------------------------------------------------------------------------
(* The specifications. *)

Client ==
    \/ EnterScope
    \/ LeaveScope
    \/ Throw
    \/ CloseScope
    \/ Catch
    \/ Propagate
    \/ Tick
    \/ \E h \in Handles : WriteFile(h)

\* The filesystem provider of the design: creation and removal may fail, the
\* existence check and the logger sink return normally, and the generated
\* names are distinct.
Next ==
    \/ Client
    \/ \E h \in Handles : Construct(h, PrimitiveFaults, TRUE)
    \/ \E h \in Handles : Cleanup(h, PrimitiveFaults)
    \/ \E h \in Handles : Destroy(h, PrimitiveFaults)

Spec == Init /\ [][Next]_vars

\* As Spec, and fs::exists and the logger sink may throw.
NextFaults ==
    \/ Client
    \/ \E h \in Handles : Construct(h, AllFaults, TRUE)
    \/ \E h \in Handles : Cleanup(h, AllFaults)
    \/ \E h \in Handles : Destroy(h, AllFaults)

SpecFaults == Init /\ [][NextFaults]_vars

\* A program with two TempDir objects.
InitPair ==
    /\ handles = [h \in 1..MaxMoveHandles |-> NoHandle]
    /\ disk = (TempDirectoryPath :> {})
    /\ now = 0
    /\ scopes = <<>>
    /\ uncaught = 0
    /\ out = <<>>
    /\ result = Idle
    /\ terminated = FALSE

\* TempDir(Config().set_cleanup(c).enable_logging()) and
\* TempDir(Config().set_cleanup(c)) in the default root
MoveCalls ==
    {c \in Calls : /\ c.form = "config"
                   /\ c.root_path = DefaultConfig.root_path
                   /\ c.temp_dir_prefix = DefaultConfig.temp_dir_prefix}

\* the faults of a program that moves its TempDir: fs::remove_all may fail
MoveFaults == {[NoFault EXCEPT !.remove = r] : r \in RemoveOutcomes}

\* One TempDir is constructed and then moved: into a new object by the move
\* constructor, between the two objects by move assignment.
NextMove ==
    \/ EnterScope
    \/ LeaveScope
    \/ Throw
    \/ CloseScope
    \/ Catch
    \/ ConstructCall(1, MoveCalls, PrimitiveFaults, TRUE)
    \/ \E a, b \in Handles : MoveConstruct(a, b)
    \/ \E a, b \in Handles : MoveAssign(a, b)
    \/ \E h \in Handles : Cleanup(h, MoveFaults)
    \/ \E h \in Handles : Destroy(h, MoveFaults)

SpecMove == InitPair /\ [][NextMove]_vars

\* One TempDir in a root that other parties use too: they may remove the
\* directory it manages and create directories of their own.
NextShared ==
    \/ EnterScope
    \/ LeaveScope
    \/ Throw
    \/ CloseScope
    \/ Catch
    \/ \E h \in Handles : ExternalRemove(h)
    \/ \E p \in SharedPaths : ExternalCreate(p)
    \/ \E h \in Handles : ConstructCall(h, MoveCalls, {NoFault}, FALSE)
    \/ \E h \in Handles : Cleanup(h, MoveFaults)
    \/ \E h \in Handles : Destroy(h, MoveFaults)

SpecShared == Init /\ [][NextShared]_vars

\* TempDir(Config().set_cleanup(Cleanup::always)), with and without
\* enable_logging()
PairCalls == {c \in MoveCalls : c.cleanup = "always"}

\* Two TempDir objects are constructed, each with the name that
\* generate_dir_name makes of the clock and of its random draw; one may be
\* move-assigned onto the other.  No call of the filesystem fails.
NextPair ==
    \/ EnterScope
    \/ LeaveScope
    \/ CloseScope
    \/ Tick
    \/ \E h \in Handles : ConstructCall(h, PairCalls, {NoFault}, FALSE)
    \/ \E a, b \in Handles : MoveAssign(a, b)
    \/ \E h \in Handles : Cleanup(h, {NoFault})
    \/ \E h \in Handles : Destroy(h, {NoFault})

SpecPair == InitPair /\ [][NextPair]_vars

----------------------------------------------------------------------------
(* The properties. *)

\* the directory the operation of the last step was about existed before it
ExistedBefore == exists(result.before, result.path)

\* C1: a handle with Cleanup::always whose scope ends, normally or while an
\* exception is propagating, leaves no directory behind, provided
\* fs::remove_all does not fail.
C1_AlwaysRemovedAtScopeExit ==
    (/\ result.op = "destroy"
     /\ result.config.cleanup = "always"
     /\ result.env.remove = "ok")
    => ~exists(disk, result.path)

\* an Always handle's directory is removed by the destructor while an
\* exception is propagating through its scope
C1_Witness ==
    /\ result.op = "destroy"
    /\ result.config.cleanup = "always"
    /\ result.env.remove = "ok"
    /\ result.mode = "unwind" /\ result.unc > 0
    /\ ExistedBefore
    /\ ~exists(disk, result.path)

\* C2: with Cleanup::never the directory made at construction exists as long
\* as the handle lives, no explicit cleanup() and no destructor run changes
\* the filesystem, and the directory is there after the handle is destroyed.
C2_NeverKeepsDirectory ==
    /\ \A h \in Handles :
         (handles[h].state = "live" /\ handles[h]._config.cleanup = "never")
         => exists(disk, handles[h]._temp_dir)
    /\ (result.op \in {"cleanup", "destroy"} /\ result.config.cleanup = "never")
       => (disk = result.before /\ exists(disk, result.path))

\* a Never handle is destroyed while an exception is propagating, after
\* explicit cleanup() calls, and its directory is still there
C2_Witness ==
    /\ result.op = "destroy"
    /\ result.config.cleanup = "never"
    /\ result.mode = "unwind"
    /\ result.calls > 1
    /\ exists(disk, result.path)

\* C3: with Cleanup::on_success, in a scope at any depth, the destructor
\* removes the directory when the owning scope ends normally and keeps it
\* when the scope ends because an exception is propagating through it
\* (fs::remove_all not failing, and the directory not cleaned up before).
C3_OnSuccessFollowsOwningScope ==
    (/\ result.op = "destroy"
     /\ result.config.cleanup = "on_success"
     /\ result.env.remove = "ok"
     /\ ExistedBefore)
    => /\ result.mode = "exit" => ~exists(disk, result.path)
       /\ result.mode = "unwind" => exists(disk, result.path)

\* C4: after a successful construction, by any overload, path() is an
\* existing directory, its parent is the root_path asked for (the OS temp
\* directory when none was) and its name starts with the prefix asked for.
C4_PathUnderRootWithPrefix ==
    (result.op = "construct" /\ result.raised = NoException)
    => LET path == handles[result.h]._temp_dir
       IN  /\ handles[result.h].state = "live"
           /\ exists(disk, path)
           /\ parent_path(path) = result.call.root_path
           /\ StartsWith(filename(path), result.call.temp_dir_prefix)

\* TempDir(root_path, cleanup) has made its directory under a root that did
\* not exist
C4_Witness ==
    /\ result.op = "construct" /\ result.raised = NoException
    /\ result.call.form = "root_cleanup"
    /\ result.call.root_path = CustomRoot
    /\ ~exists(result.before, CustomRoot)
    /\ exists(disk, handles[result.h]._temp_dir)
    /\ parent_path(handles[result.h]._temp_dir) = CustomRoot

\* C5: construction is all-or-nothing: when it fails no handle is produced
\* and no directory made by the attempt remains; when it returns a handle the
\* directory at its path exists.
C5_ConstructionAllOrNothing ==
    result.op = "construct"
    => IF result.raised # NoException
       THEN handles[result.h].state = "failed" /\ disk = result.before
       ELSE handles[result.h].state = "live" /\ exists(disk, result.path)

\* fs::create_directories failed in the constructor of the last step: the
\* mkdir of a missing directory along the path did
CreationPrimitiveFailed ==
    /\ result.op = "construct"
    /\ result.env.failAt \in 1..Len(result.path)
    /\ ~exists(result.before, SubSeq(result.path, 1, result.env.failAt))

\* the sinks after the operation of the last step has logged one message
\* under its configuration: nothing without a logger
LoggedOnce(label, error) ==
    IF result.config.log_impl = NoLogger THEN result.sunk
    ELSE Append(result.sunk,
                [sink |-> result.config.log_impl,
                 message |-> [label |-> label, path |-> result.path,
                              error |-> error]])

\* C6: when fs::create_directories fails, the constructor logs "creation
\* failed" with the error's text and nothing else (no "create"), throws a
\* TempDirException whose message is the prefix followed by the error's
\* message, and produces no handle.
C6_CreationFailureReported ==
    CreationPrimitiveFailed
    => /\ result.raised =
             [type |-> "TempDirException",
              what |-> <<TempDirExceptionPrefix>> \o CreateFailure.what,
              std |-> TRUE]
       /\ handles[result.h].state = "failed"
       /\ out = LoggedOnce("TempDir creation failed", CreateFailure.what)

\* a constructor with a logger has failed to create its directory
C6_Witness ==
    /\ CreationPrimitiveFailed
    /\ result.config.log_impl # NoLogger
    /\ Len(out) = Len(result.sunk) + 1
    /\ result.raised.type = "TempDirException"

\* the decision table of the cleanup policies, for the operation of the last
\* step: delete under Always, and under OnSuccess with no exception in flight
DeleteExpected ==
    \/ result.config.cleanup = "always"
    \/ result.config.cleanup = "on_success" /\ result.unc = 0

\* C7: an explicit cleanup() throws a TempDirException exactly when the
\* directory existed, the decision was to delete and fs::remove_all failed;
\* in every other case it returns normally.
C7_CleanupThrowsIffRemovalFailed ==
    result.op = "cleanup"
    => LET failed == /\ ExistedBefore
                     /\ DeleteExpected
                     /\ result.env.remove # "ok"
       IN  IF failed
           THEN result.raised =
                    [type |-> "TempDirException",
                     what |-> <<TempDirExceptionPrefix>> \o RemoveFailure.what,
                     std |-> TRUE]
           ELSE result.raised = NoException

\* an explicit cleanup() has thrown because the removal failed
C7_Witness ==
    /\ result.op = "cleanup"
    /\ ExistedBefore /\ DeleteExpected /\ result.env.remove # "ok"
    /\ result.raised.type = "TempDirException"
    /\ exists(disk, result.path)

\* C8: whatever fails while the destructor runs cleanup(), under any policy,
\* nothing leaves the destructor, the failure was logged as "removal failed"
\* (when there is a logger) before it was swallowed, and the directory is
\* left in place.
C8_DestructorSwallowsLoggedFailure ==
    (result.op = "destroy" /\ result.thrown # NoException)
    => /\ result.raised = NoException
       /\ ~terminated
       /\ result.config.log_impl # NoLogger
          => /\ Len(out) = Len(result.sunk) + 1
             /\ out[Len(out)].message.label = "TempDir removal failed"
             /\ out[Len(out)].message.path = result.path
       /\ exists(disk, result.path)

\* C9: once an explicit cleanup() has returned normally with the directory
\* removed, the directory stays removed, and every later cleanup() and the
\* destructor throw nothing and leave the filesystem as it was.
C9_CleanupIdempotent ==
    /\ \A h \in Handles :
         (handles[h].state = "live" /\ handles[h].cleaned)
         => ~exists(disk, handles[h]._temp_dir)
    /\ (result.op \in {"cleanup", "destroy"} /\ result.cleaned)
       => /\ result.raised = NoException
          /\ result.thrown = NoException
          /\ disk = result.before

\* the destructor runs after two explicit cleanup() calls of which one
\* removed the directory
C9_Witness ==
    /\ result.op = "destroy"
    /\ result.cleaned
    /\ result.calls > 1
    /\ result.raised = NoException
    /\ disk = result.before

\* what the sinks received about the path p, in order
EventsAbout(p) == SelectSeq(out, LAMBDA e : e.message.path = p)

\* a message of the operation of the last step as its sink receives it
Event(label, error) ==
    [sink |-> result.config.log_impl,
     message |-> [label |-> label, path |-> result.path, error |-> error]]

\* a handle with a logger is destroyed at scope exit and cleanup() was never
\* called on it
DestroyedUntouched ==
    /\ result.op = "destroy"
    /\ result.config.log_impl # NoLogger
    /\ result.calls = 0

\* C10 as stated: such a handle has logged exactly "create" and then either
\* "remove" (decision delete, the directory is gone) or "keep" (decision
\* keep, the directory is still there), each with its path.
C10_CreateThenRemoveOrKeep ==
    DestroyedUntouched
    => \/ /\ EventsAbout(result.path) =
                <<Event("TempDir create", <<>>), Event("TempDir remove", <<>>)>>
          /\ DeleteExpected
          /\ ~exists(disk, result.path)
       \/ /\ EventsAbout(result.path) =
                <<Event("TempDir create", <<>>), Event("TempDir keep", <<>>)>>
          /\ ~DeleteExpected
          /\ exists(disk, result.path)

\* C10, amended: ... or "removal failed" with the path and the error's text
\* when the decision is delete and fs::remove_all fails; the directory is
\* then still there.
C10_CreateThenOneTerminalEvent ==
    DestroyedUntouched
    => \/ /\ EventsAbout(result.path) =
                <<Event("TempDir create", <<>>), Event("TempDir remove", <<>>)>>
          /\ DeleteExpected /\ result.env.remove = "ok"
          /\ ~exists(disk, result.path)
       \/ /\ EventsAbout(result.path) =
                <<Event("TempDir create", <<>>), Event("TempDir keep", <<>>)>>
          /\ ~DeleteExpected
          /\ exists(disk, result.path)
       \/ /\ EventsAbout(result.path) =
                <<Event("TempDir create", <<>>),
                  Event("TempDir removal failed", RemoveFailure.what)>>
          /\ DeleteExpected /\ result.env.remove # "ok"
          /\ exists(disk, result.path)

\* an Always handle with a logger has logged "create" and "remove" by the end
\* of its scope
C10_Witness ==
    /\ DestroyedUntouched
    /\ result.config.cleanup = "always"
    /\ result.mode = "exit"
    /\ EventsAbout(result.path) =
           <<Event("TempDir create", <<>>), Event("TempDir remove", <<>>)>>
    /\ ~exists(disk, result.path)

\* C11: the path of a handle never changes while the handle lives: no step,
\* a move from it or onto it included, changes what path() returns.
C11_PathSetOnce ==
    [][\A h \in DOMAIN handles :
          (handles[h].state = "live" /\ handles'[h].state = "live")
          => handles'[h]._temp_dir = handles[h]._temp_dir]_vars

\* the live handles that own a directory: their path is not empty
Owners == {h \in Handles : handles[h].state = "live" /\ handles[h]._temp_dir # <<>>}

\* the directories of d that are not in e
Gone(d, e) == {p \in DOMAIN d : ~exists(e, p)}

\* C12: no two live handles own the same path.  A move hands the path to its
\* target and leaves the source without one, touching neither the
\* filesystem nor the sinks; cleanup() and the destructor of a moved-from
\* handle remove nothing and log nothing; and a directory only disappears in
\* cleanup() or the destructor of the handle that owns it.
C12_SingleOwner ==
    /\ \A h, k \in Owners : handles[h]._temp_dir = handles[k]._temp_dir => h = k
    /\ result.op \in {"move_construct", "move_assign"}
       => /\ handles[result.h]._temp_dir = result.path
          /\ handles[result.src]._temp_dir = <<>>
          /\ disk = result.before
          /\ out = result.sunk
    /\ (result.op \in {"cleanup", "destroy"} /\ result.path = <<>>)
       => /\ disk = result.before
          /\ out = result.sunk
          /\ result.thrown = NoException
    /\ result.op \in {"cleanup", "destroy"}
       => Gone(result.before, disk) \subseteq {result.path}
    /\ result.op \notin {"cleanup", "destroy"}
       => Gone(result.before, disk) = {}

\* cleanup() is called on a moved-from handle while the handle that was
\* move-constructed from it owns the directory, which is still there
C12_Witness ==
    /\ result.op = "cleanup"
    /\ result.path = <<>>
    /\ \E k \in Owners : k > result.h /\ exists(disk, handles[k]._temp_dir)
    /\ out = result.sunk

\* C13: a successful construction never yields a path that another live
\* handle already has.
C13_GeneratedNamesDiffer ==
    (result.op = "construct" /\ result.raised = NoException)
    => \A k \in Handles \ {result.h} :
          handles[k].state = "live" => handles[k]._temp_dir # result.path

\* C18: every directory was created under Cleanup::always and no removal
\* fails, so once all the handles are destroyed, moves by assignment or not,
\* no directory is left under the root.
C18_MoveAssignKeepsObligation ==
    (\A h \in Handles : handles[h].state = "destroyed")
    => DOMAIN disk = {TempDirectoryPath}

\* C14: whenever cleanup() runs, called by the client or by the destructor,
\* and the directory exists, the decision is delete under Always, delete
\* under OnSuccess with std::uncaught_exceptions() = 0, keep under OnSuccess
\* with an exception in flight, keep under Never; on keep the directory and
\* what it holds are as before.
C14_DecisionTable ==
    (result.op \in {"cleanup", "destroy"} /\ ExistedBefore)
    => /\ result.decision =
             CASE result.config.cleanup = "always" -> "delete"
               [] result.config.cleanup = "on_success" /\ result.unc = 0 -> "delete"
               [] result.config.cleanup = "on_success" /\ result.unc > 0 -> "keep"
               [] result.config.cleanup = "never" -> "keep"
       /\ result.decision = "keep" => disk = result.before

\* cleanup() is called under OnSuccess while an exception is in flight, on a
\* directory that holds a file: it is kept
C14_Witness ==
    /\ result.op = "cleanup"
    /\ ExistedBefore
    /\ result.config.cleanup = "on_success"
    /\ result.unc > 0
    /\ result.decision = "keep"
    /\ "test.txt" \in disk[result.path]

\* C15: when the directory is not there as cleanup() starts, called by the
\* client or by the destructor, under any policy, with or without an
\* exception in flight, removed by an earlier cleanup() or by someone else,
\* the call logs nothing, throws nothing and changes nothing on disk.
C15_AbsentDirectoryIsClean ==
    (result.op \in {"cleanup", "destroy"} /\ ~ExistedBefore)
    => /\ out = result.sunk
       /\ result.thrown = NoException
       /\ result.raised = NoException
       /\ disk = result.before
       /\ result.decision = "none"

\* the destructor of a handle with a logger, on which cleanup() was never
\* called, runs during unwinding after another party removed the directory
C15_Witness ==
    /\ result.op = "destroy"
    /\ ~ExistedBefore
    /\ result.calls = 0
    /\ result.unc > 0
    /\ result.config.log_impl # NoLogger
    /\ out = result.sunk
    /\ disk = result.before

\* C20: cleanup() and the destructor never remove a directory that another
\* party created, whether it was there before the constructor generated its
\* name or was created at the path after the handle's directory was removed.
C20_RemovesOnlyOwnDirectory ==
    result.op \in {"cleanup", "destroy"}
    => \A p \in Gone(result.before, disk) : ForeignFile \notin result.before[p]

\* the labels of the events that end the life of a directory
TerminalLabels == {"TempDir keep", "TempDir remove", "TempDir removal failed"}

\* C16: when a handle with a logger is destroyed, after any number of
\* cleanup() calls, the sinks have received about its path the event create
\* first and then exactly one terminal event: keep, remove or removal failed.
C16_OneTerminalEventPerLife ==
    (result.op = "destroy" /\ result.config.log_impl # NoLogger)
    => LET events == EventsAbout(result.path)
       IN  /\ Len(events) = 2
           /\ events[1].message.label = "TempDir create"
           /\ events[2].message.label \in TerminalLabels

\* C19: whatever leaves a constructor or an explicit cleanup() is a
\* TempDirException whose message is the prefix followed by the message of
\* the error underneath, a failure of fs::exists or of the logger sink
\* included.
C19_OnlyTempDirExceptionEscapes ==
    (result.op \in {"construct", "cleanup"} /\ result.raised # NoException)
    => /\ result.raised.type = "TempDirException"
       /\ Len(result.raised.what) >= 2
       /\ result.raised.what[1] = TempDirExceptionPrefix

\* the operation of the last step, run again from the state it started in by
\* a handle whose Config has the logger l: what it leaves on disk and what it
\* throws
Rerun(l) ==
    LET config == [result.config EXCEPT !.log_impl = l]
    IN  IF result.op = "construct"
        THEN {[disk |-> r.disk, thrown |-> r.raised] :
                 r \in {t \in {TempDir(config, result.before, result.sunk, now, rn,
                                       result.env) : rn \in RandomDraws} :
                           t._temp_dir = result.path}}
        ELSE IF result.op \in {"cleanup", "destroy"}
        THEN LET r == cleanup([_temp_dir |-> result.path, _config |-> config],
                              result.before, result.sunk, result.unc, result.env)
             IN  {[disk |-> r.disk, thrown |-> r.raised]}
        ELSE {[disk |-> result.before, thrown |-> NoException]}

\* C17: a handle without a logger outputs nothing, and an operation leaves
\* the same filesystem and throws the same error whether its handle has a
\* logger (whose sink returns normally) or none: constructor, cleanup(),
\* moves and destructor, with fs::create_directories and fs::remove_all
\* failing or not.
C17_LoggingIsObservation ==
    result.op # "none"
    => /\ result.config.log_impl = NoLogger => out = result.sunk
       /\ \A l \in Loggers :
             Rerun(l) = {[disk |-> disk, thrown |-> result.thrown]}

\* the destructor of a handle with a logger has logged a failed removal; the
\* same destructor without a logger leaves the same directory behind
C17_Witness ==
    /\ result.op = "destroy"
    /\ result.config.log_impl # NoLogger
    /\ result.env.remove # "ok"
    /\ result.thrown.type = "TempDirException"
    /\ Len(out) = Len(result.sunk) + 1
    /\ Rerun(NoLogger) = {[disk |-> disk, thrown |-> result.thrown]}

====
